---- MODULE Spec2Model ----
(***************************************************************************)
(* take_candles: the paging loop of fetchCandles (services/binance.service *)
(* .ts), the environment validation of config/env.ts, the CSV sink of      *)
(* utils/file.ts and the entry point index.ts, as one state machine.       *)
(* One run of the process is one behaviour: the module load validates the  *)
(* environment, main() calls fetchCandles(), which pages through the       *)
(* upstream klines endpoint and finally writes the file.                   *)
(***************************************************************************)
EXTENDS Integers, Sequences, FiniteSets, TLC

VARIABLES
    environ,     \* process.env as read by dotenv: the raw strings
    env,         \* config/env.ts `env` (parsed.data) once validation passed
    pc,          \* position of the single thread of control
    allCandles,  \* fetchCandles: let allCandles
    startTime,   \* fetchCandles: let startTime (the cursor)
    fetchMore,   \* fetchCandles: let fetchMore
    requests,    \* history: the params of every axios.get issued, in order
    responses,   \* history: what the upstream answered to each request
    delays,      \* history: for every delay(), the number of requests issued before it
    sinkCalls,   \* history: the candles argument of every saveCandlesToFile call
    file,        \* the output file: [written |-> BOOLEAN, name, content]
    log,         \* history: console.log / console.error lines, as tags
    exitCode     \* process exit status; -1 while the process is running

vars == <<environ, env, pc, allCandles, startTime, fetchMore, requests,
          responses, delays, sinkCalls, file, log, exitCode>>

----------------------------------------------------------------------------
(* Bounds of the model.                                                    *)

\* number of candles the upstream holds
NumSlots == 4
\* openTime of the first candle the upstream holds (epoch ms)
FirstOpenTime == 1000
\* distance between the openTimes of two consecutive upstream candles (ms)
CandleSpan == 300

\* Binance's documented page-size maximum ("max 1000 for Binance")
UpstreamMaxLimit == 1000

----------------------------------------------------------------------------
(* Text helpers: template literals and Date#toISOString.                   *)

Pad2(n) == IF n < 10 THEN "0" \o ToString(n) ELSE ToString(n)

Pad3(n) == IF n < 10 THEN "00" \o ToString(n)
           ELSE IF n < 100 THEN "0" \o ToString(n) ELSE ToString(n)

Pad4(n) == IF n < 1000 THEN "0" \o Pad3(n) ELSE ToString(n)

\* the civil date (proleptic Gregorian) of a day number counted from 1970-01-01
CivilFromDays(days) ==
    LET z   == days + 719468
        era == z \div 146097
        doe == z - era * 146097
        yoe == (doe - doe \div 1460 + doe \div 36524 - doe \div 146096) \div 365
        doy == doe - (365 * yoe + yoe \div 4 - yoe \div 100)
        mp  == (5 * doy + 2) \div 153
        d   == doy - (153 * mp + 2) \div 5 + 1
        m   == IF mp < 10 THEN mp + 3 ELSE mp - 9
        y   == yoe + era * 400 + (IF m <= 2 THEN 1 ELSE 0)
    IN  [year |-> y, month |-> m, day |-> d]

\* new Date(ts).toISOString() for an integer ts >= 0 (years up to 9999)
ToISOString(ts) ==
    LET msDay == 86400000
        date  == CivilFromDays(ts \div msDay)
        rest  == ts % msDay
        hh    == rest \div 3600000
        mm    == (rest % 3600000) \div 60000
        ss    == (rest % 60000) \div 1000
        ms    == rest % 1000
    IN  Pad4(date.year) \o "-" \o Pad2(date.month) \o "-" \o Pad2(date.day)
        \o "T" \o Pad2(hh) \o ":" \o Pad2(mm) \o ":" \o Pad2(ss)
        \o "." \o Pad3(ms) \o "Z"

\* utils/time.ts formatCandleTime
formatCandleTime(ts) == ToISOString(ts)

----------------------------------------------------------------------------
(* config/env.ts: process.env is validated against envSchema at module     *)
(* load, before main() runs.                                               *)

\* Number(text) of z.coerce.number(), in tenths so that 1.5 is representable
JsNumber(text) ==
    CASE text = "1"    -> [nan |-> FALSE, tenths |-> 10]
      [] text = "2"    -> [nan |-> FALSE, tenths |-> 20]
      [] text = "3"    -> [nan |-> FALSE, tenths |-> 30]
      [] text = "150"  -> [nan |-> FALSE, tenths |-> 1500]
      [] text = "500"  -> [nan |-> FALSE, tenths |-> 5000]
      [] text = "1001" -> [nan |-> FALSE, tenths |-> 10010]
      [] text = "0"    -> [nan |-> FALSE, tenths |-> 0]
      [] text = ""     -> [nan |-> FALSE, tenths |-> 0]
      [] text = "-1"   -> [nan |-> FALSE, tenths |-> -10]
      [] text = "-5"   -> [nan |-> FALSE, tenths |-> -50]
      [] text = "1.5"  -> [nan |-> FALSE, tenths |-> 15]
      [] OTHER         -> [nan |-> TRUE,  tenths |-> 0]

\* variant of ZodPositiveInt: .nonnegative() in place of .positive()
ZodPositiveInt_NonNegative(text) ==
    LET n == JsNumber(text)
    IN  /\ ~n.nan
        /\ n.tenths % 10 = 0
        /\ n.tenths >= 0

\* z.coerce.number().int().positive()
ZodPositiveInt(text) ==
    LET n == JsNumber(text)
    IN  /\ ~n.nan
        /\ n.tenths % 10 = 0
        /\ n.tenths > 0

\* the value z.coerce.number() hands on once the checks passed
ZodNumberValue(text) == JsNumber(text).tenths \div 10

\* z.string().min(1)
ZodNonEmpty(text) == text # ""

\* z.string().datetime(): YYYY-MM-DDTHH:MM:SS(.sss)Z, no offset, no date-only
ZodDatetime(text) ==
    text \in {"1970-01-01T00:00:01Z", "1970-01-01T00:00:01.500Z", "1970-01-01T00:00:02Z"}

\* new Date(text).getTime(); "yesterday" is an Invalid Date (NaN) and is not
\* given a value here: no run reaches fetchCandles with it
DateGetTime(text) ==
    CASE text = "1970-01-01T00:00:01Z"      -> 1000
      [] text = "1970-01-01T00:00:01.500Z"  -> 1500
      [] text = "1970-01-01T00:00:02Z"      -> 2000
      [] text = "1970-01-01T00:00:01+00:00" -> 1000
      [] text = "1970-01-01"                -> 0

\* envSchema.safeParse(process.env).success
envSchema(e) ==
    /\ ZodNonEmpty(e.SYMBOL)
    /\ ZodNonEmpty(e.INTERVAL)
    /\ ZodPositiveInt(e.LIMIT)
    /\ ZodPositiveInt(e.REQ_DELAY_MS)
    /\ ZodDatetime(e.START_DATE)
    /\ ZodNonEmpty(e.OUTPUT_FILE)

\* parsed.data
ParsedData(e) ==
    [SYMBOL       |-> e.SYMBOL,
     INTERVAL     |-> e.INTERVAL,
     LIMIT        |-> ZodNumberValue(e.LIMIT),
     REQ_DELAY_MS |-> ZodNumberValue(e.REQ_DELAY_MS),
     START_DATE   |-> e.START_DATE,
     OUTPUT_FILE  |-> e.OUTPUT_FILE]

\* `env` before the module has been evaluated
NoEnv ==
    [SYMBOL |-> "", INTERVAL |-> "", LIMIT |-> 0, REQ_DELAY_MS |-> 0,
     START_DATE |-> "", OUTPUT_FILE |-> ""]

\* the environments a run is started with
Environments ==
    [SYMBOL       : {"BTCUSDT", ""},
     INTERVAL     : {"1m", ""},
     LIMIT        : {"1", "2", "3", "500", "1001", "0", "-1", "1.5", "abc"},
     REQ_DELAY_MS : {"150", "0", "-5"},
     START_DATE   : {"1970-01-01T00:00:01Z", "1970-01-01T00:00:01.500Z",
                     "1970-01-01T00:00:02Z",
                     "1970-01-01T00:00:01+00:00", "1970-01-01", "yesterday"},
     OUTPUT_FILE  : {"BTCUSDT_1m.csv", ""}]

----------------------------------------------------------------------------
(* The upstream klines endpoint.  It holds NumSlots candles; a request     *)
(* (startTime, limit) is answered by a failure, by a body that is no       *)
(* array, or by an array of at most `limit` records with openTime >=       *)
(* startTime in strictly increasing openTime order (possibly with gaps,    *)
(* possibly holding a record that is malformed).                           *)

SlotOpen(k) == FirstOpenTime + k * CandleSpan

\* open, high, low, close, volume: decimal strings
PriceRows ==
    { <<"1", "2", "0.5", "1.5", "10">>,
      <<"0.01634790", "0.80000000", "0.01575800", "0.01577100", "148976.11427815">> }

\* closeTime offsets from openTime the upstream may report
CloseOffsets == {0, CandleSpan - 1}

\* the raw records (positions 0..6 of a kline) the upstream may serve for slot k
RawAt(k) ==
    { <<SlotOpen(k), p[1], p[2], p[3], p[4], p[5], SlotOpen(k) + d>> :
        p \in PriceRows, d \in CloseOffsets }

\* a record that cannot be mapped: it has no positions 0 and 6
MalformedRecord == <<>>

RECURSIVE PagesFrom(_, _)
\* the well-formed pages of at most n records over the slots k, k+1, ...
PagesFrom(k, n) ==
    IF n = 0 \/ k > NumSlots - 1 THEN { <<>> }
    ELSE { <<>> } \cup
         UNION { { <<r>> \o rest : r \in RawAt(j), rest \in PagesFrom(j + 1, n - 1) } :
                 j \in k .. (NumSlots - 1) }

\* first slot whose openTime is >= t
RECURSIVE FirstSlotFrom(_, _)
FirstSlotFrom(t, k) ==
    IF k > NumSlots - 1 \/ SlotOpen(k) >= t THEN k ELSE FirstSlotFrom(t, k + 1)

\* the well-formed pages the upstream may return to (startTime: t, limit: n)
Pages(t, n) == PagesFrom(FirstSlotFrom(t, 0), n)

\* the same pages with one record replaced by a malformed one
BrokenPages(t, n) ==
    UNION { { [p EXCEPT ![i] = MalformedRecord] : i \in 1 .. Len(p) } : p \in Pages(t, n) }

\* what axios.get may produce for a request
Responses(t, n) ==
    { [kind |-> "reject", data |-> <<>>], [kind |-> "object", data |-> <<>>] }
    \cup { [kind |-> "array", data |-> p] : p \in Pages(t, n) }
    \cup { [kind |-> "array", data |-> p] : p \in BrokenPages(t, n) }

----------------------------------------------------------------------------
(* services/binance.service.ts and utils/file.ts: pure parts.              *)

\* mapCandle throws (formatCandleTime on an Invalid Date) when raw[0] or
\* raw[6] is missing
MapCandleThrows(raw) == Len(raw) < 7

\* mapCandle(raw): positions 0..6 by name, plus the two ISO renderings
mapCandle(raw) ==
    [openTime  |-> raw[1],
     open      |-> raw[2],
     high      |-> raw[3],
     low       |-> raw[4],
     close     |-> raw[5],
     volume    |-> raw[6],
     closeTime |-> raw[7],
     openISO   |-> formatCandleTime(raw[1]),
     closeISO  |-> formatCandleTime(raw[7])]

\* rawCandles.map(c => mapCandle(c))
MapPage(rawCandles) == [i \in 1 .. Len(rawCandles) |-> mapCandle(rawCandles[i])]

\* rawCandles.map(...) throws: some record cannot be mapped
MapPageThrows(rawCandles) ==
    \E i \in 1 .. Len(rawCandles) : MapCandleThrows(rawCandles[i])

\* variant of NextStartTime: the "+ 1" is missing
NextStartTime_NoPlusOne(candles) == candles[Len(candles)].closeTime

\* variant of NextStartTime: the first candle of the page in place of the last
NextStartTime_FirstCandle(candles) == candles[1].closeTime + 1

\* variant of NextStartTime: off by one upwards
NextStartTime_PlusTwo(candles) == candles[Len(candles)].closeTime + 2

\* variant of NextStartTime: the openTime of the last candle is taken as cursor
NextStartTime_LastOpen(candles) == candles[Len(candles)].openTime

\* startTime = candles[candles.length - 1].closeTime + 1
NextStartTime(candles) == candles[Len(candles)].closeTime + 1

\* variant of ShortPage: off by one against the limit
ShortPage_OffByOne(candles, limit) == Len(candles) < limit - 1

\* variant of ShortPage: `<=` in place of `<`
ShortPage_LessOrEqual(candles, limit) == Len(candles) <= limit

\* variant of ShortPage: the short-page test is missing
ShortPage_Never(candles, limit) == FALSE

\* candles.length < env.LIMIT
ShortPage(candles, limit) == Len(candles) < limit

\* the params object of axios.get
RequestParams(e, cursor) ==
    [symbol |-> e.SYMBOL, interval |-> e.INTERVAL, startTime |-> cursor, limit |-> e.LIMIT]

\* the header line of saveCandlesToFile, with its newline
Header == "openTime,open,high,low,close,volume,closeTime,openISO,closeISO\n"

\* variant of Row: high and low change places
Row_SwapsHighLow(c) ==
    ToString(c.openTime) \o "," \o c.open \o "," \o c.low \o "," \o c.high \o ","
    \o c.close \o "," \o c.volume \o "," \o ToString(c.closeTime) \o ","
    \o c.openISO \o "," \o c.closeISO

\* the template literal of one row
Row(c) ==
    ToString(c.openTime) \o "," \o c.open \o "," \o c.high \o "," \o c.low \o ","
    \o c.close \o "," \o c.volume \o "," \o ToString(c.closeTime) \o ","
    \o c.openISO \o "," \o c.closeISO

RECURSIVE JoinLines(_)
\* rows.join("\n")
JoinLines(rows) ==
    IF Len(rows) = 0 THEN ""
    ELSE IF Len(rows) = 1 THEN rows[1]
    ELSE rows[1] \o "\n" \o JoinLines(Tail(rows))

\* header + rows, the text handed to fs.writeFileSync
FileContent(candles) ==
    Header \o JoinLines([i \in 1 .. Len(candles) |-> Row(candles[i])])

----------------------------------------------------------------------------
(* The run.                                                                *)

Init ==
    /\ environ \in Environments
    /\ env = NoEnv
    /\ pc = "boot"
    /\ allCandles = <<>>
    /\ startTime = 0
    /\ fetchMore = FALSE
    /\ requests = <<>>
    /\ responses = <<>>
    /\ delays = <<>>
    /\ sinkCalls = <<>>
    /\ file = [written |-> FALSE, name |-> "", content |-> ""]
    /\ log = <<>>
    /\ exitCode = -1

\* config/env.ts: safeParse; on failure two console.error and process.exit(1)
LoadEnv ==
    /\ pc = "boot"
    /\ IF envSchema(environ)
       THEN /\ env' = ParsedData(environ)
            /\ pc' = "main"
            /\ UNCHANGED <<log, exitCode>>
       ELSE /\ log' = log \o <<"invalid_env", "error_format">>
            /\ exitCode' = 1
            /\ pc' = "exited"
            /\ UNCHANGED env
    /\ UNCHANGED <<environ, allCandles, startTime, fetchMore, requests, responses,
                   delays, sinkCalls, file>>

\* main() calls fetchCandles(): its lines up to the while loop
FetchStart ==
    /\ pc = "main"
    /\ allCandles' = <<>>
    /\ startTime' = DateGetTime(env.START_DATE)
    /\ fetchMore' = TRUE
    /\ log' = Append(log, "fetching")
    /\ pc' = "loop"
    /\ UNCHANGED <<environ, env, requests, responses, delays, sinkCalls, file, exitCode>>

\* while (fetchMore): the loop is entered and axios.get is called
IssueRequest ==
    /\ pc = "loop"
    /\ fetchMore
    /\ requests' = Append(requests, RequestParams(env, startTime))
    /\ pc' = "await_get"
    /\ UNCHANGED <<environ, env, allCandles, startTime, fetchMore, responses, delays,
                   sinkCalls, file, log, exitCode>>

\* while (fetchMore): the test fails, control reaches saveCandlesToFile
LoopExit ==
    /\ pc = "loop"
    /\ ~fetchMore
    /\ pc' = "save"
    /\ UNCHANGED <<environ, env, allCandles, startTime, fetchMore, requests, responses,
                   delays, sinkCalls, file, log, exitCode>>

\* variant of BreakLoop: `continue` in place of `break`
BreakLoop_Continue ==
    /\ pc' = "loop"
    /\ UNCHANGED <<allCandles, startTime, fetchMore, delays, log>>

\* if (rawCandles.length === 0) break: control leaves the loop for saveCandlesToFile
BreakLoop ==
    /\ pc' = "save"
    /\ UNCHANGED <<allCandles, startTime, fetchMore, delays, log>>

\* variant of Catch: the function returns from the catch block, skipping the save
Catch_SkipsSave ==
    /\ log' = Append(log, "error_fetching")
    /\ fetchMore' = FALSE
    /\ pc' = "report"
    /\ UNCHANGED <<allCandles, startTime, delays>>

\* variant of Catch: the partial result is discarded on error
Catch_Discards ==
    /\ log' = Append(log, "error_fetching")
    /\ fetchMore' = FALSE
    /\ allCandles' = <<>>
    /\ pc' = "loop"
    /\ UNCHANGED <<startTime, delays>>

\* variant of Catch: fetchMore is left set, so the request is tried again
Catch_Retries ==
    /\ log' = Append(log, "error_fetching")
    /\ pc' = "loop"
    /\ UNCHANGED <<allCandles, startTime, fetchMore, delays>>

\* the catch block
Catch ==
    /\ log' = Append(log, "error_fetching")
    /\ fetchMore' = FALSE
    /\ pc' = "loop"
    /\ UNCHANGED <<allCandles, startTime, delays>>

\* variant of TryBody: the records are pushed one by one as they are mapped, so
\* those before a malformed record stay in allCandles
TryBody_PartialAppend(r) ==
    IF r.kind # "array"
    THEN Catch
    ELSE IF Len(r.data) = 0
    THEN BreakLoop
    ELSE IF MapPageThrows(r.data)
    THEN LET bad == CHOOSE i \in 1 .. Len(r.data) :
                        /\ MapCandleThrows(r.data[i])
                        /\ \A j \in 1 .. (i - 1) : ~MapCandleThrows(r.data[j])
         IN  /\ allCandles' = allCandles \o MapPage(SubSeq(r.data, 1, bad - 1))
             /\ log' = Append(log, "error_fetching")
             /\ fetchMore' = FALSE
             /\ pc' = "loop"
             /\ UNCHANGED <<startTime, delays>>
    ELSE LET candles == MapPage(r.data)
         IN  /\ allCandles' = allCandles \o candles
             /\ startTime' = NextStartTime(candles)
             /\ fetchMore' = IF ShortPage(candles, env.LIMIT) THEN FALSE ELSE fetchMore
             /\ delays' = Append(delays, [ms |-> env.REQ_DELAY_MS, after |-> Len(requests)])
             /\ pc' = "await_delay"
             /\ UNCHANGED log

\* the try block from `const rawCandles = response.data` to `await delay(...)`
TryBody(r) ==
    IF r.kind # "array"
    THEN \* rawCandles.length is undefined, rawCandles.map is not a function
         Catch
    ELSE IF Len(r.data) = 0
    THEN BreakLoop
    ELSE IF MapPageThrows(r.data)
    THEN Catch
    ELSE LET candles == MapPage(r.data)
         IN  /\ allCandles' = allCandles \o candles
             /\ startTime' = NextStartTime(candles)
             /\ fetchMore' = IF ShortPage(candles, env.LIMIT) THEN FALSE ELSE fetchMore
             /\ delays' = Append(delays, [ms |-> env.REQ_DELAY_MS, after |-> Len(requests)])
             /\ pc' = "await_delay"
             /\ UNCHANGED log

\* the awaited axios.get rejects (network error, timeout, 4xx, 5xx)
AxiosRejects ==
    /\ pc = "await_get"
    /\ responses' = Append(responses, [kind |-> "reject", data |-> <<>>])
    /\ Catch
    /\ UNCHANGED <<environ, env, requests, sinkCalls, file, exitCode>>

\* the awaited axios.get resolves with a body
AxiosResolves ==
    /\ pc = "await_get"
    /\ \E r \in Responses(startTime, env.LIMIT) :
          /\ r.kind # "reject"
          /\ responses' = Append(responses, r)
          /\ TryBody(r)
    /\ UNCHANGED <<environ, env, requests, sinkCalls, file, exitCode>>

\* the timer of delay() fires and the loop test is reached again
DelayElapsed ==
    /\ pc = "await_delay"
    /\ pc' = "loop"
    /\ UNCHANGED <<environ, env, allCandles, startTime, fetchMore, requests, responses,
                   delays, sinkCalls, file, log, exitCode>>

\* saveCandlesToFile(allCandles, path.join(cwd, OUTPUT_FILE)): the write succeeds
SaveCandlesToFile ==
    /\ pc = "save"
    /\ sinkCalls' = Append(sinkCalls, allCandles)
    /\ file' = [written |-> TRUE, name |-> env.OUTPUT_FILE, content |-> FileContent(allCandles)]
    /\ log' = Append(log, "saved")
    /\ pc' = "report"
    /\ UNCHANGED <<environ, env, allCandles, startTime, fetchMore, requests, responses,
                   delays, exitCode>>

\* variant of SaveThrows: the write error is caught and logged inside the sink,
\* so fetchCandles goes on to its report
SaveThrows_Swallowed ==
    /\ pc = "save"
    /\ sinkCalls' = Append(sinkCalls, allCandles)
    /\ log' = Append(log, "fatal")
    /\ pc' = "report"
    /\ UNCHANGED <<environ, env, allCandles, startTime, fetchMore, requests, responses,
                   delays, file, exitCode>>

\* saveCandlesToFile: fs.writeFileSync throws; the exception leaves fetchCandles
\* and is caught in main(), which prints it and calls process.exit(1)
SaveThrows ==
    /\ pc = "save"
    /\ sinkCalls' = Append(sinkCalls, allCandles)
    /\ log' = Append(log, "fatal")
    /\ exitCode' = 1
    /\ pc' = "exited"
    /\ UNCHANGED <<environ, env, allCandles, startTime, fetchMore, requests, responses,
                   delays, file>>

\* the elapsed-time line; fetchCandles and main return, the process ends
Report ==
    /\ pc = "report"
    /\ log' = Append(log, "completed")
    /\ exitCode' = 0
    /\ pc' = "exited"
    /\ UNCHANGED <<environ, env, allCandles, startTime, fetchMore, requests, responses,
                   delays, sinkCalls, file>>

Next ==
    \/ LoadEnv
    \/ FetchStart
    \/ IssueRequest
    \/ LoopExit
    \/ AxiosRejects
    \/ AxiosResolves
    \/ DelayElapsed
    \/ SaveCandlesToFile
    \/ SaveThrows
    \/ Report

Spec == Init /\ [][Next]_vars

\* the runs started with an environment that passes the validation
InitValidEnv == Init /\ envSchema(environ)

\* The event loop runs every pending continuation, the awaited request settles
\* and the timer fires: the run does not stay for ever at a position it can leave.
\* Every step changes pc, so weak fairness of one action per position says
\* exactly that (at "await_get" and "save" the other outcome also leaves it).
FairSpec ==
    /\ InitValidEnv
    /\ [][Next]_vars
    /\ WF_vars(LoadEnv)
    /\ WF_vars(FetchStart)
    /\ WF_vars(IssueRequest)
    /\ WF_vars(LoopExit)
    /\ WF_vars(AxiosRejects)
    /\ WF_vars(DelayElapsed)
    /\ WF_vars(SaveCandlesToFile)
    /\ WF_vars(Report)

----------------------------------------------------------------------------
(* Vocabulary of the properties, stated over the histories.                *)

\* the response is an array whose records all have positions 0..6
GoodPage(r) == r.kind = "array" /\ \A i \in 1 .. Len(r.data) : Len(r.data[i]) = 7

\* the page request failed: transport failure or a body that cannot be processed
Failed(r) == ~GoodPage(r)

EmptyPage(r) == r.kind = "array" /\ Len(r.data) = 0

NonEmptyPage(r) == GoodPage(r) /\ Len(r.data) > 0

RECURSIVE CandlesOfPages(_)
\* the candles of the well-formed pages among responses 1..n, in order
CandlesOfPages(n) ==
    IF n = 0 THEN <<>>
    ELSE CandlesOfPages(n - 1) \o
         (IF GoodPage(responses[n]) THEN MapPage(responses[n].data) ELSE <<>>)

\* the run got past the validation of the environment
Validated == env # NoEnv

\* the loop of fetchCandles has not been left yet
Paging == pc \in {"loop", "await_get", "await_delay"}

\* the START_DATE instant in epoch milliseconds
StartInstant ==
    IF environ.START_DATE = "1970-01-01T00:00:01Z" THEN 1000
    ELSE IF environ.START_DATE = "1970-01-01T00:00:01.500Z" THEN 1500
    ELSE IF environ.START_DATE = "1970-01-01T00:00:02Z" THEN 2000
    ELSE -1

----------------------------------------------------------------------------
(* C1: in a run that passed validation, saveCandlesToFile is invoked       *)
(* exactly once, after the loop has been left (no request in flight, none  *)
(* issued afterwards) and with the whole accumulated sequence; while the   *)
(* loop is running it has not been invoked; a run that never passed        *)
(* validation never invokes it.                                            *)
SinkOnceAfterLoop ==
    /\ Len(sinkCalls) <= 1
    /\ (pc \in {"boot", "main", "save"} \/ Paging) => sinkCalls = <<>>
    /\ (Validated /\ pc \in {"report", "exited"}) => Len(sinkCalls) = 1
    /\ ~Validated => sinkCalls = <<>>
    /\ sinkCalls # <<>> =>
          /\ sinkCalls[1] = allCandles
          /\ sinkCalls[1] = CandlesOfPages(Len(responses))
          /\ Len(responses) = Len(requests)

\* C1 witness: a run ended by a request error after two full pages has saved once
SinkOnceAfterLoopWitness ==
    /\ pc = "exited"
    /\ Len(responses) = 3
    /\ responses[3].kind = "reject"
    /\ Len(sinkCalls) = 1
    /\ Len(sinkCalls[1]) = 4

(* C2: when the request for page N fails after N-1 pages were fetched, the *)
(* file that is written holds the header and exactly the candles of pages  *)
(* 1..N-1, in order; with N = 1 it holds the header line alone.            *)
FailureKeepsEarlierPages ==
    \A n \in 1 .. Len(responses) :
        (Failed(responses[n]) /\ file.written) =>
            /\ \A i \in 1 .. (n - 1) :
                   NonEmptyPage(responses[i]) /\ Len(responses[i].data) = env.LIMIT
            /\ sinkCalls = << CandlesOfPages(n - 1) >>
            /\ file.content = FileContent(CandlesOfPages(n - 1))
            /\ Len(CandlesOfPages(n - 1)) = (n - 1) * env.LIMIT
            /\ n = 1 => file.content =
                 "openTime,open,high,low,close,volume,closeTime,openISO,closeISO\n"

\* C2 witness: page 3 fails after two full pages and the file has been written
FailureKeepsEarlierPagesWitness ==
    /\ file.written
    /\ Len(responses) = 3
    /\ Failed(responses[3])
    /\ Len(allCandles) = 4

(* C3: a failed page request is the last request of the run: no request is *)
(* issued after it, wherever in the page sequence it fails.                *)
NoRetryAfterFailure ==
    \A n \in 1 .. Len(responses) : Failed(responses[n]) => n = Len(requests)

\* C3 witness: the second request failed and the run is over
NoRetryAfterFailureWitness ==
    /\ pc = "exited"
    /\ Len(requests) = 2
    /\ Failed(responses[2])

(* C4: the first request carries the START_DATE instant in epoch ms; after *)
(* a non-empty page has been processed the cursor is the closeTime of its  *)
(* last candle plus 1, and the next request, if any, carries that value.   *)
CursorIsLastClosePlusOne ==
    /\ Len(requests) >= 1 => requests[1].startTime = StartInstant
    /\ \A n \in 1 .. Len(responses) :
          NonEmptyPage(responses[n]) =>
              LET page == responses[n].data
                  next == page[Len(page)][7] + 1
              IN  /\ n = Len(responses) => startTime = next
                  /\ n < Len(requests) => requests[n + 1].startTime = next

\* C4 witness: a second request has been issued after a non-empty first page
CursorIsLastClosePlusOneWitness ==
    /\ Len(requests) = 2
    /\ NonEmptyPage(responses[1])
    /\ requests[2].startTime > requests[1].startTime

(* C5: the accumulated sequence is strictly increasing in openTime in      *)
(* every state, so no openTime occurs twice, within or across pages.       *)
StrictlyIncreasingOpenTime ==
    \A i \in 1 .. Len(allCandles) : \A j \in 1 .. Len(allCandles) :
        i < j => allCandles[i].openTime < allCandles[j].openTime

\* C5 witness: candles of at least two pages have been accumulated
StrictlyIncreasingOpenTimeWitness ==
    /\ Len(responses) >= 2
    /\ NonEmptyPage(responses[1])
    /\ NonEmptyPage(responses[2])
    /\ Len(allCandles) >= 3

(* C6: an empty page ends the run: its request is the last one, the cursor *)
(* and the accumulated sequence are what they were when it was requested,  *)
(* and the file that is written holds the header line and exactly the      *)
(* candles of the earlier pages (none when the first page is empty).       *)
EmptyPageEndsRun ==
    \A n \in 1 .. Len(responses) :
        EmptyPage(responses[n]) =>
            /\ n = Len(requests)
            /\ ~Paging
            /\ startTime = requests[n].startTime
            /\ allCandles = CandlesOfPages(n - 1)
            /\ file.written =>
                  /\ file.content = FileContent(CandlesOfPages(n - 1))
                  /\ n = 1 => file.content =
                       "openTime,open,high,low,close,volume,closeTime,openISO,closeISO\n"

\* C6 witness: the second page was empty and the file holds the first page
EmptyPageEndsRunWitness ==
    /\ Len(responses) = 2
    /\ EmptyPage(responses[2])
    /\ file.written
    /\ Len(allCandles) > 0

(* C7: a non-empty page shorter than LIMIT ends the run after it has been  *)
(* processed: its candles are the tail of the accumulated sequence and of  *)
(* the written file, and its request is the last one.                      *)
ShortPageEndsRun ==
    \A n \in 1 .. Len(responses) :
        (NonEmptyPage(responses[n]) /\ Len(responses[n].data) < env.LIMIT) =>
            LET k == Len(responses[n].data)
            IN  /\ n = Len(requests)
                /\ ~fetchMore
                /\ allCandles = CandlesOfPages(n)
                /\ SubSeq(allCandles, Len(allCandles) - k + 1, Len(allCandles))
                     = MapPage(responses[n].data)
                /\ file.written =>
                     /\ sinkCalls = << allCandles >>
                     /\ file.content = FileContent(allCandles)

\* C7 witness: a full page, then a short one, and the file holds both
ShortPageEndsRunWitness ==
    /\ env.LIMIT = 2
    /\ Len(responses) = 2
    /\ Len(responses[2].data) = 1
    /\ NonEmptyPage(responses[2])
    /\ file.written
    /\ Len(allCandles) = 3

(* C8: once the loop has been left, every delay that was performed was     *)
(* followed by another page request: no delay on the iteration that ends   *)
(* the loop, be it by error, empty page or short page.                     *)
NoDelayOnLastIteration ==
    ~Paging => \A i \in 1 .. Len(delays) : delays[i].after < Len(requests)

(* C9: a non-ISO START_DATE, a non-positive LIMIT or a non-positive        *)
(* REQ_DELAY_MS makes the start-up fail with a diagnostic and exit status  *)
(* 1; no page request is issued and no file is written.                    *)
InvalidConfig ==
    \/ environ.START_DATE \in {"yesterday", "1970-01-01"}
    \/ environ.LIMIT \in {"0", "-1"}
    \/ environ.REQ_DELAY_MS \in {"0", "-5"}

InvalidConfigFailsBeforeNetwork ==
    InvalidConfig =>
        /\ requests = <<>>
        /\ ~file.written
        /\ sinkCalls = <<>>
        /\ pc \in {"boot", "exited"}
        /\ pc = "exited" => (exitCode = 1 /\ Len(log) > 0 /\ log[1] = "invalid_env")

\* C9 witness: a run with LIMIT=0 has exited with status 1 without a request
InvalidConfigFailsBeforeNetworkWitness ==
    /\ environ.LIMIT = "0"
    /\ environ.REQ_DELAY_MS = "150"
    /\ environ.START_DATE = "1970-01-01T00:00:01Z"
    /\ pc = "exited"
    /\ exitCode = 1
    /\ requests = <<>>

(* C10: LIMIT is validated as bounded above by the upstream maximum: a     *)
(* LIMIT above it is rejected at start-up and no page request carries it.  *)
LimitBoundedByUpstreamMax ==
    /\ \A i \in 1 .. Len(requests) : requests[i].limit <= UpstreamMaxLimit
    /\ environ.LIMIT = "1001" => pc \in {"boot", "exited"}

----------------------------------------------------------------------------
\* the position of the first occurrence of tag t in the log, 0 when absent
FirstIndexOf(t) ==
    IF \E i \in 1 .. Len(log) : log[i] = t
    THEN CHOOSE i \in 1 .. Len(log) : log[i] = t /\ \A j \in 1 .. (i - 1) : log[j] # t
    ELSE 0

(* C11: a failed page request does not end the process: the sink is still  *)
(* called, and when its write succeeds the elapsed-time report follows and *)
(* the run ends with exit status 0; the exit status of a validated run is  *)
(* non-zero exactly when the sink write threw, in which case the error     *)
(* reached main (fatal diagnostic, no report).                             *)
FetchErrorNonFatalSinkErrorFatal ==
    /\ \A n \in 1 .. Len(responses) :
          Failed(responses[n]) =>
              /\ FirstIndexOf("error_fetching") > 0
              /\ pc = "exited" =>
                    /\ Len(sinkCalls) = 1
                    /\ file.written =>
                          /\ exitCode = 0
                          /\ FirstIndexOf("error_fetching") < FirstIndexOf("saved")
                          /\ FirstIndexOf("saved") < FirstIndexOf("completed")
                          /\ FirstIndexOf("fatal") = 0
    /\ (Validated /\ pc = "exited") =>
          /\ exitCode \in {0, 1}
          /\ exitCode = 1 <=> ~file.written
          /\ exitCode = 1 <=> FirstIndexOf("fatal") > 0
          /\ exitCode = 1 => (Len(sinkCalls) = 1 /\ FirstIndexOf("completed") = 0)
    /\ (Validated /\ pc # "exited") => exitCode = -1

\* C11 witness: the second request failed, the file was written, exit status 0
FetchErrorNonFatalSinkErrorFatalWitness ==
    /\ pc = "exited"
    /\ Len(responses) = 2
    /\ responses[2].kind = "reject"
    /\ Len(allCandles) > 0
    /\ file.written
    /\ exitCode = 0

----------------------------------------------------------------------------
(* An upstream that serves a finite history: the candles of the slots, in  *)
(* order, from the first one with openTime >= the requested startTime, as  *)
(* many as the limit allows.                                               *)

\* number of candles of the history at or after instant t
Remaining(t) == NumSlots - FirstSlotFrom(t, 0)

\* response n is the history's answer to request n
ServedFromHistory(n) ==
    LET first == FirstSlotFrom(requests[n].startTime, 0)
        k     == IF env.LIMIT < NumSlots - first THEN env.LIMIT ELSE NumSlots - first
    IN  /\ GoodPage(responses[n])
        /\ Len(responses[n].data) = k
        /\ \A i \in 1 .. k : responses[n].data[i][1] = SlotOpen(first + i - 1)

\* every candle of response n closes one millisecond before the next one opens
ContiguousPage(n) ==
    \A i \in 1 .. Len(responses[n].data) :
        responses[n].data[i][7] = responses[n].data[i][1] + CandleSpan - 1

\* so far the upstream has behaved as a history
HistoryUpstream == \A n \in 1 .. Len(responses) : ServedFromHistory(n)

\* so far the upstream has behaved as a contiguous history
ContiguousUpstream ==
    HistoryUpstream /\ \A n \in 1 .. Len(responses) : ContiguousPage(n)

(* C12: against a contiguous history served at most LIMIT candles a page,  *)
(* the accumulated sequence is at every moment the history from the start  *)
(* instant on, without a gap or a repetition at any page boundary, and the *)
(* sequence handed to the sink is that whole history, each candle once.    *)
NoSkipNoDuplicate ==
    (Validated /\ ContiguousUpstream) =>
        LET first == FirstSlotFrom(StartInstant, 0)
        IN  /\ \A i \in 1 .. Len(allCandles) :
                  /\ first + i - 1 <= NumSlots - 1
                  /\ allCandles[i].openTime = SlotOpen(first + i - 1)
                  /\ allCandles[i].closeTime = SlotOpen(first + i - 1) + CandleSpan - 1
            /\ \A n \in 2 .. Len(responses) :
                  Len(responses[n].data) > 0 =>
                      responses[n].data[1][1] =
                          responses[n - 1].data[Len(responses[n - 1].data)][7] + 1
            /\ sinkCalls # <<>> =>
                  /\ Len(sinkCalls[1]) = Remaining(StartInstant)
                  /\ sinkCalls[1] = allCandles
                  /\ sinkCalls[1] = CandlesOfPages(Len(responses))
            /\ file.written => file.content = FileContent(CandlesOfPages(Len(responses)))

\* C12 witness: two full pages of a contiguous history and the closing empty
\* page have been received and the four candles written
NoSkipNoDuplicateWitness ==
    /\ Validated
    /\ ContiguousUpstream
    /\ env.LIMIT = 2
    /\ Len(responses) = 3
    /\ Len(responses[1].data) = 2
    /\ Len(responses[2].data) = 2
    /\ file.written
    /\ Len(sinkCalls[1]) = 4

----------------------------------------------------------------------------
RECURSIVE RawOfPages(_)
\* the raw records of the well-formed pages among responses 1..n, in order
RawOfPages(n) ==
    IF n = 0 THEN <<>>
    ELSE RawOfPages(n - 1) \o (IF GoodPage(responses[n]) THEN responses[n].data ELSE <<>>)

\* the row a raw record is to produce: positions 0..6 in header order, then the
\* ISO renderings of positions 0 and 6
ExpectedRow(raw) ==
    ToString(raw[1]) \o "," \o raw[2] \o "," \o raw[3] \o "," \o raw[4] \o ","
    \o raw[5] \o "," \o raw[6] \o "," \o ToString(raw[7]) \o ","
    \o ToISOString(raw[1]) \o "," \o ToISOString(raw[7])

RECURSIVE ExpectedRows(_)
\* one row per record, separated by newlines, none after the last
ExpectedRows(raws) ==
    IF Len(raws) = 0 THEN ""
    ELSE ExpectedRow(raws[1]) \o
         (IF Len(raws) = 1 THEN "" ELSE "\n" \o ExpectedRows(Tail(raws)))

\* the synthetic page of the round-trip example
ExamplePage == << <<1000, "1", "2", "0.5", "1.5", "10", 1299>> >>

(* C13: the written text is the literal header line followed by one row    *)
(* per accumulated candle in accumulation order, each row giving openTime, *)
(* open, high, low, close, volume, closeTime, openISO, closeISO with the   *)
(* strings of raw positions 1-5 unchanged; the single page                 *)
(* [[1000,"1","2","0.5","1.5","10",1299]] with LIMIT=500 gives the one row *)
(* 1000,1,2,0.5,1.5,10,1299,1970-01-01T00:00:01.000Z,1970-01-01T00:00:01.299Z. *)
CsvHeaderAndRows ==
    file.written =>
        /\ file.name = environ.OUTPUT_FILE
        /\ file.content =
             "openTime,open,high,low,close,volume,closeTime,openISO,closeISO\n"
             \o ExpectedRows(RawOfPages(Len(responses)))
        /\ (env.LIMIT = 500 /\ Len(responses) = 1 /\ responses[1].kind = "array"
              /\ responses[1].data = ExamplePage) =>
             file.content =
               "openTime,open,high,low,close,volume,closeTime,openISO,closeISO\n1000,1,2,0.5,1.5,10,1299,1970-01-01T00:00:01.000Z,1970-01-01T00:00:01.299Z"

\* C13 witness: the example page was the only page, with LIMIT=500, and the
\* file has been written
CsvHeaderAndRowsWitness ==
    /\ env.LIMIT = 500
    /\ Len(responses) = 1
    /\ responses[1].kind = "array"
    /\ responses[1].data = ExamplePage
    /\ file.written

----------------------------------------------------------------------------
\* response n is a well-formed page of exactly LIMIT records
FullPage(n) == NonEmptyPage(responses[n]) /\ Len(responses[n].data) = env.LIMIT

(* C14: a page of exactly LIMIT records never ends the run, whatever has   *)
(* been accumulated: fetchMore stays set while it is the latest page, the  *)
(* loop is not left on it, and the request that follows it carries the     *)
(* cursor advanced past its last candle.                                   *)
FullPageNeverEndsRun ==
    \A n \in 1 .. Len(responses) :
        FullPage(n) =>
            LET page == responses[n].data
                next == page[Len(page)][7] + 1
            IN  /\ n = Len(responses) => (fetchMore /\ Paging)
                /\ ~Paging => n < Len(requests)
                /\ n < Len(requests) =>
                      /\ requests[n + 1].startTime = next
                      /\ requests[n + 1].limit = env.LIMIT
                /\ Len(allCandles) >= n * env.LIMIT

\* C14 witness: the second page was full, more than LIMIT candles had been
\* accumulated by then, and a third request has followed it
FullPageNeverEndsRunWitness ==
    /\ env.LIMIT = 2
    /\ Len(requests) = 3
    /\ Len(responses) >= 2
    /\ FullPage(1)
    /\ FullPage(2)
    /\ Len(allCandles) = 4

----------------------------------------------------------------------------
(* C15: every failure inside a page iteration (rejected request, body that *)
(* is no array, record that cannot be mapped) has the same effect: nothing *)
(* of that page is appended, the cursor stays where the request found it,  *)
(* fetchMore is cleared and no request follows; the accumulated sequence   *)
(* is at all times the concatenation of the whole well-formed pages.       *)
FailedPageIsAtomic ==
    /\ allCandles = CandlesOfPages(Len(responses))
    /\ \A n \in 1 .. Len(responses) :
          Failed(responses[n]) =>
              /\ n = Len(responses)
              /\ n = Len(requests)
              /\ allCandles = CandlesOfPages(n - 1)
              /\ Len(allCandles) = (n - 1) * env.LIMIT
              /\ startTime = requests[n].startTime
              /\ ~fetchMore
              /\ pc \in {"loop", "save", "report", "exited"}
              /\ delays = [i \in 1 .. (n - 1) |-> [ms |-> env.REQ_DELAY_MS, after |-> i]]

\* C15 witness: the second page held a well-formed record followed by a
\* malformed one; the run is over with the first page alone accumulated
FailedPageIsAtomicWitness ==
    /\ pc = "exited"
    /\ env.LIMIT = 2
    /\ Len(responses) = 2
    /\ responses[2].kind = "array"
    /\ Len(responses[2].data) = 2
    /\ Len(responses[2].data[1]) = 7
    /\ responses[2].data[2] = MalformedRecord
    /\ Len(allCandles) = 2

----------------------------------------------------------------------------
(* C16: the startTime values of the successive page requests of a run are  *)
(* strictly increasing, so no request repeats an earlier one (the upstream *)
(* returning only candles with openTime >= startTime, closeTime >=         *)
(* openTime).                                                              *)
CursorStrictlyIncreasing ==
    /\ \A i \in 1 .. Len(requests) : \A j \in 1 .. Len(requests) :
          i < j => requests[i].startTime < requests[j].startTime
    /\ Len(requests) >= 1 => startTime >= requests[Len(requests)].startTime
    /\ (Len(requests) >= 1 /\ pc \in {"await_delay", "loop"} /\ fetchMore) =>
          startTime > requests[Len(requests)].startTime

\* C16 witness: three requests have been issued
CursorStrictlyIncreasingWitness ==
    /\ Len(requests) = 3
    /\ requests[1].startTime < requests[2].startTime
    /\ requests[2].startTime < requests[3].startTime

----------------------------------------------------------------------------
\* floor(T / LIMIT) + 1 for the T candles of the history at or after the start
ExpectedRequests == Remaining(StartInstant) \div env.LIMIT + 1

\* the run is over and the sink has been called, after exactly the expected requests
EndedAfterExpectedRequests ==
    /\ pc = "exited"
    /\ Len(sinkCalls) = 1
    /\ Len(sinkCalls[1]) = Remaining(StartInstant)
    /\ Len(requests) = ExpectedRequests

\* what holds at every moment of a run against a history that does not fail
ExactRequestCount ==
    (Validated /\ HistoryUpstream) =>
        /\ Len(requests) <= ExpectedRequests
        /\ pc \in {"save", "report", "exited"} =>
              /\ Len(requests) = ExpectedRequests
              /\ Len(responses) = ExpectedRequests
              /\ Len(allCandles) = Remaining(StartInstant)
              /\ Remaining(StartInstant) % env.LIMIT = 0 =>
                    EmptyPage(responses[Len(responses)])
        /\ sinkCalls # <<>> => Len(requests) = ExpectedRequests

(* C17: against an upstream that holds T candles at or after the start     *)
(* instant and serves min(LIMIT, remaining) of them per request without    *)
(* failing, the run never issues more than floor(T / LIMIT) + 1 requests,  *)
(* has issued exactly that many when the loop is left (the last one        *)
(* answered by an empty page when LIMIT divides T, T = 0 included); the    *)
(* run terminates, and has then called the sink with the T candles.        *)
TerminatesAfterExactRequests ==
    /\ []ExactRequestCount
    /\ <>(pc = "exited")
    /\ []((pc = "exited" /\ Validated /\ HistoryUpstream) => EndedAfterExpectedRequests)

\* C17 witness: T = 4 and LIMIT = 3: a full page, a short page, two requests
\* in all, and the run is over with the sink called
TerminatesAfterExactRequestsWitness ==
    /\ Validated
    /\ HistoryUpstream
    /\ env.LIMIT = 3
    /\ Remaining(StartInstant) = 4
    /\ Len(requests) = 2
    /\ pc = "exited"
    /\ Len(sinkCalls) = 1

====
